---- MODULE Spec2Model ----
(***************************************************************************)
(* Model of the shape tracker (app/circle.py, app/rectangle.py,            *)
(* app/tracker.py): tracked entities, their merge operations same_circle   *)
(* and same_rectangle, and the trajectories ("data") they accumulate.      *)
(*                                                                         *)
(* Encodings.                                                              *)
(*  - A Python color is [none |-> BOOLEAN, ch |-> sequence of channels];   *)
(*    none = TRUE is the Python None.  A channel is [t |-> tag, v |-> n]   *)
(*    with tag "float" (a float of value n), "nan" (float NaN), "int" (a   *)
(*    Python int, not a float) or "str" (a non-numeric value).             *)
(*  - A distance is kept as its square (an integer): sqrt is monotone, so  *)
(*    distance <= t is squared-distance <= t*t, and two distances are      *)
(*    equal iff their squares are.                                         *)
(*  - A trajectory entry without the "distance" key carries NoDistance.    *)
(*  - The value of are_colors_similar is "None", "np.True_" or "np.False_" *)
(*    (np.all returns a numpy bool, never the Python singletons "True" and *)
(*    "False").                                                            *)
(***************************************************************************)
EXTENDS Integers, Sequences, FiniteSets, TLC

VARIABLES circles, rectangles, video_height, candidate, call, pc,
          frame_counter, video, saves, fs, raised, ingest, probe, loading

\* The state of a Tracker.track run and of the calls made outside one.
runVars == <<frame_counter, video, saves, fs, raised, ingest, probe, loading>>

vars == <<circles, rectangles, video_height, candidate, call, pc,
          frame_counter, video, saves, fs, raised, ingest, probe, loading>>

(* ------------------------- program constants --------------------------- *)

CircleDistanceThreshold == 50
RadiusThreshold == 17
RectDistanceThreshold == 40
SizeDiffThreshold == 5
Tolerance == 30

\* Mutants of MaxFrameGap: the window one frame shorter, one frame longer.
MaxFrameGapShort == 20 - 1
MaxFrameGapLong == 20 + 1

\* The tracking window of same_circle and same_rectangle.
MaxFrameGap == 20

(* ------------------------------ bounds --------------------------------- *)

\* Longest trajectory an entity is driven to.
MaxData == 3

(* ------------------------- Python values ------------------------------- *)

Float(n) == [t |-> "float", v |-> n]
NaN == [t |-> "nan", v |-> 0]
None == [none |-> TRUE, ch |-> << >>]
Tuple(ch) == [none |-> FALSE, ch |-> ch]
NoDistance == -1

Abs(n) == IF n < 0 THEN -n ELSE n
Max(a, b) == IF a >= b THEN a ELSE b

\* `v is False`: identity with the Python singleton False.
is_False(v) == v = "False"
\* Truth value of v, as `not v` and `if v` take it.
truthy(v) == v \in {"True", "np.True_"}

(* --------------------------- app/circle.py ----------------------------- *)

\* filter_nan iterates over its argument: None is not iterable (TypeError).
filter_nan_raises(color) == color.none

filter_nan(color) ==
    IF \E i \in 1..Len(color.ch) : color.ch[i].t # "float"
    THEN None
    ELSE Tuple(color.ch)

is_valid_color(color) ==
    /\ ~color.none
    /\ Len(color.ch) = 3
    /\ \A i \in 1..Len(color.ch) :
          /\ color.ch[i].t = "float"
          /\ 0 <= color.ch[i].v
          /\ color.ch[i].v <= 255

\* Mutant of are_colors_similar: the tolerance is an exclusive bound.
are_colors_similar_strict(color1, color2, tolerance) ==
    IF ~(is_valid_color(color1) /\ is_valid_color(color2))
    THEN "None"
    ELSE IF \A i \in 1..3 : Abs(color1.ch[i].v - color2.ch[i].v) < tolerance
         THEN "np.True_"
         ELSE "np.False_"

\* Mutant of are_colors_similar: the differences are compared signed.
are_colors_similar_signed(color1, color2, tolerance) ==
    IF ~(is_valid_color(color1) /\ is_valid_color(color2))
    THEN "None"
    ELSE IF \A i \in 1..3 : color1.ch[i].v - color2.ch[i].v <= tolerance
         THEN "np.True_"
         ELSE "np.False_"

are_colors_similar(color1, color2, tolerance) ==
    IF ~(is_valid_color(color1) /\ is_valid_color(color2))
    THEN "None"
    ELSE IF \A i \in 1..3 : Abs(color1.ch[i].v - color2.ch[i].v) <= tolerance
         THEN "np.True_"
         ELSE "np.False_"

Circle(x, y, radius, color, frame, vh) ==
    LET c == filter_nan(color) IN
    [x |-> x, y |-> y, frame |-> frame, radius |-> radius, color |-> c,
     data |-> << [x |-> x, y |-> vh - y, frame |-> frame, radius |-> radius,
                  distance |-> NoDistance, color |-> c] >>]

\* Mutant of are_circles_same: both thresholds are exclusive bounds.
are_circles_same_strict(self, circle, distance_threshold, radius_threshold) ==
    LET distance == (circle.x - self.x) * (circle.x - self.x)
                    + (circle.y - self.y) * (circle.y - self.y)
        radius_diff == Abs(circle.radius - self.radius)
    IN  IF /\ distance_threshold >= 0
           /\ distance < distance_threshold * distance_threshold
           /\ radius_diff < radius_threshold
        THEN [match |-> TRUE, distance |-> distance]
        ELSE [match |-> FALSE, distance |-> NoDistance]

\* The result is the distance (its square here) on a match and False
\* otherwise; `match` is what `distance is False` tells apart, also at
\* distance 0.  sqrt(...) <= t holds for no t below 0.
are_circles_same(self, circle, distance_threshold, radius_threshold) ==
    LET distance == (circle.x - self.x) * (circle.x - self.x)
                    + (circle.y - self.y) * (circle.y - self.y)
        radius_diff == Abs(circle.radius - self.radius)
    IN  IF /\ distance_threshold >= 0
           /\ distance <= distance_threshold * distance_threshold
           /\ radius_diff <= radius_threshold
        THEN [match |-> TRUE, distance |-> distance]
        ELSE [match |-> FALSE, distance |-> NoDistance]

\* Mutant of merge_circle: the frame is not advanced.
merge_circle_keeps_frame(self, circle, distance, vh) ==
    [self EXCEPT
       !.x = circle.x, !.y = circle.y,
       !.data = Append(@, [x |-> circle.x, y |-> vh - circle.y,
                           frame |-> circle.frame, radius |-> circle.radius,
                           distance |-> distance, color |-> circle.color])]

\* Mutant of merge_circle: the trajectory is assigned, not appended to.
merge_circle_assigns_data(self, circle, distance, vh) ==
    [self EXCEPT
       !.x = circle.x, !.y = circle.y, !.frame = circle.frame,
       !.data = << [x |-> circle.x, y |-> vh - circle.y,
                    frame |-> circle.frame, radius |-> circle.radius,
                    distance |-> distance, color |-> circle.color] >>]

\* The update of a successful same_circle: self as the call leaves it.
merge_circle(self, circle, distance, vh) ==
    [self EXCEPT
       !.x = circle.x, !.y = circle.y, !.frame = circle.frame,
       !.data = Append(@, [x |-> circle.x, y |-> vh - circle.y,
                           frame |-> circle.frame, radius |-> circle.radius,
                           distance |-> distance, color |-> circle.color])]

\* Mutant of same_circle: the chronology test is < instead of <=.
same_circle_strict_chronology(self, circle, vh) ==
    LET rejected == [ret |-> FALSE, self |-> self, circle |-> circle]
        distance == are_circles_same(self, circle, CircleDistanceThreshold,
                                     RadiusThreshold)
    IN  IF circle.frame < self.frame THEN rejected
        ELSE IF (circle.frame - self.frame) > MaxFrameGap THEN rejected
        ELSE IF ~distance.match THEN rejected
        ELSE IF is_False(are_colors_similar(self.color, circle.color, Tolerance))
             THEN rejected
        ELSE [ret |-> TRUE,
              self |-> merge_circle(self, circle, distance.distance, vh),
              circle |-> circle]

\* The result holds the returned value and both objects as the call leaves them.
same_circle(self, circle, vh) ==
    LET rejected == [ret |-> FALSE, self |-> self, circle |-> circle]
        distance == are_circles_same(self, circle, CircleDistanceThreshold,
                                     RadiusThreshold)
    IN  IF circle.frame <= self.frame THEN rejected
        ELSE IF (circle.frame - self.frame) > MaxFrameGap THEN rejected
        ELSE IF ~distance.match THEN rejected
        ELSE IF is_False(are_colors_similar(self.color, circle.color, Tolerance))
             THEN rejected
        ELSE [ret |-> TRUE,
              self |-> merge_circle(self, circle, distance.distance, vh),
              circle |-> circle]

(* -------------------------- app/rectangle.py --------------------------- *)

Rectangle(x, y, width, height, color, frame, vh) ==
    LET c == filter_nan(color) IN
    [x |-> x, y |-> y, width |-> width, height |-> height, frame |-> frame,
     color |-> c,
     data |-> << [x |-> x, y |-> vh - y, width |-> width, height |-> height,
                  frame |-> frame, distance |-> NoDistance, color |-> c] >>]

\* Mutant of are_rectangles_same: the centres are not rounded down (the
\* coordinates are doubled to stay in the integers).
are_rectangles_same_exact_centre(self, rect, distance_threshold, size_diff_threshold) ==
    LET center1 == <<2 * self.x + self.width, 2 * self.y + self.height>>
        center2 == <<2 * rect.x + rect.width, 2 * rect.y + rect.height>>
        distance == (center2[1] - center1[1]) * (center2[1] - center1[1])
                    + (center2[2] - center1[2]) * (center2[2] - center1[2])
        size_diff == Max(Abs(self.width - rect.width),
                         Abs(self.height - rect.height))
    IN  IF /\ distance_threshold >= 0
           /\ distance <= 4 * distance_threshold * distance_threshold
           /\ size_diff <= size_diff_threshold
        THEN [match |-> TRUE, distance |-> distance \div 4]
        ELSE [match |-> FALSE, distance |-> NoDistance]

are_rectangles_same(self, rect, distance_threshold, size_diff_threshold) ==
    LET center1 == <<self.x + self.width \div 2, self.y + self.height \div 2>>
        center2 == <<rect.x + rect.width \div 2, rect.y + rect.height \div 2>>
        distance == (center2[1] - center1[1]) * (center2[1] - center1[1])
                    + (center2[2] - center1[2]) * (center2[2] - center1[2])
        size_diff == Max(Abs(self.width - rect.width),
                         Abs(self.height - rect.height))
    IN  IF /\ distance_threshold >= 0
           /\ distance <= distance_threshold * distance_threshold
           /\ size_diff <= size_diff_threshold
        THEN [match |-> TRUE, distance |-> distance]
        ELSE [match |-> FALSE, distance |-> NoDistance]

\* The update of a successful same_rectangle: self as the call leaves it.
merge_rectangle(self, rectangle, distance, vh) ==
    [self EXCEPT
       !.x = rectangle.x, !.y = rectangle.y,
       !.height = rectangle.width, !.width = rectangle.height,
       !.frame = rectangle.frame,
       !.data = Append(@, [x |-> rectangle.x, y |-> vh - rectangle.y,
                           width |-> rectangle.width,
                           height |-> rectangle.height,
                           frame |-> rectangle.frame,
                           distance |-> distance, color |-> self.color])]

\* Mutant of same_rectangle: the chronology test is < instead of <=.
same_rectangle_strict_chronology(self, rectangle, vh) ==
    LET rejected == [ret |-> FALSE, self |-> self, rectangle |-> rectangle]
        distance == are_rectangles_same(self, rectangle, RectDistanceThreshold,
                                        SizeDiffThreshold)
    IN  IF rectangle.frame < self.frame THEN rejected
        ELSE IF (rectangle.frame - self.frame) > MaxFrameGap THEN rejected
        ELSE IF ~distance.match THEN rejected
        ELSE IF ~truthy(are_colors_similar(self.color, rectangle.color, Tolerance))
             THEN rejected
        ELSE [ret |-> TRUE,
              self |-> merge_rectangle(self, rectangle, distance.distance, vh),
              rectangle |-> rectangle]

\* Mutant of same_rectangle: the position is overwritten before the color test.
same_rectangle_early_write(self, rectangle, vh) ==
    LET rejected == [ret |-> FALSE, self |-> self, rectangle |-> rectangle]
        distance == are_rectangles_same(self, rectangle, RectDistanceThreshold,
                                        SizeDiffThreshold)
    IN  IF rectangle.frame <= self.frame THEN rejected
        ELSE IF (rectangle.frame - self.frame) > MaxFrameGap THEN rejected
        ELSE IF ~distance.match THEN rejected
        ELSE IF ~truthy(are_colors_similar(self.color, rectangle.color, Tolerance))
             THEN [ret |-> FALSE,
                   self |-> [self EXCEPT !.x = rectangle.x, !.y = rectangle.y],
                   rectangle |-> rectangle]
        ELSE [ret |-> TRUE,
              self |-> merge_rectangle(self, rectangle, distance.distance, vh),
              rectangle |-> rectangle]

same_rectangle(self, rectangle, vh) ==
    LET rejected == [ret |-> FALSE, self |-> self, rectangle |-> rectangle]
        distance == are_rectangles_same(self, rectangle, RectDistanceThreshold,
                                        SizeDiffThreshold)
    IN  IF rectangle.frame <= self.frame THEN rejected
        ELSE IF (rectangle.frame - self.frame) > MaxFrameGap THEN rejected
        ELSE IF ~distance.match THEN rejected
        ELSE IF ~truthy(are_colors_similar(self.color, rectangle.color, Tolerance))
             THEN rejected
        ELSE [ret |-> TRUE,
              self |-> merge_rectangle(self, rectangle, distance.distance, vh),
              rectangle |-> rectangle]

(* ------------------------------ inputs --------------------------------- *)

\* Detector-space circles <<x, y, radius>>: the second is at distance 50 and
\* radius difference 17 from the first, the third at distance > 50 from the
\* first and 1 from the second.
CircleGeoms == { <<100, 200, 50>>, <<130, 240, 67>>, <<130, 241, 50>> }

\* Boxes <<x, y, width, height>>: the second is close to the first and not
\* square; the centre of the third is 41 from that of the first.
RectGeoms == { <<10, 20, 100, 100>>, <<15, 25, 100, 98>>, <<51, 20, 100, 100>> }

\* Raw colors handed to the constructors: three reds 30 apart, a color with
\* a NaN channel and a color with a channel above 255.
RawColors == { Tuple(<<Float(255), Float(0), Float(0)>>),
               Tuple(<<Float(225), Float(0), Float(0)>>),
               Tuple(<<Float(195), Float(0), Float(0)>>),
               Tuple(<<Float(255), NaN, Float(0)>>),
               Tuple(<<Float(256), Float(0), Float(0)>>) }

\* Frame numbers: gaps of 1, 20 (2 to 22, 23 to 43), 21 (1 to 22, 2 to 23,
\* 22 to 43) and more.
Frames == {1, 2, 22, 23, 43}

VideoHeights == {1080}

NoCandidate == [kind |-> "none"]
NoCall == [kind |-> "none"]
NoVideo == [state |-> "none", stop |-> "none", detections |-> 0]
NoDir == [exists |-> FALSE, creatable |-> TRUE, entries |-> {}]
NoIngest == [kind |-> "none"]
NoProbe == [op |-> "none"]
NoLoad == [pc |-> "none"]

\* No run of Tracker.track is in progress.
NoRun ==
    /\ frame_counter = 0
    /\ video = NoVideo
    /\ saves = << >>
    /\ fs = NoDir
    /\ raised = "none"
    /\ ingest = NoIngest
    /\ probe = NoProbe
    /\ loading = NoLoad

(* ------------------------------ actions -------------------------------- *)
(* One entity of one kind is constructed, as the unit tests do, and is     *)
(* then offered freshly constructed candidates one call at a time.         *)

Init ==
    /\ video_height \in VideoHeights
    /\ \/ /\ \E g \in CircleGeoms, c \in RawColors, f \in Frames :
               /\ ~filter_nan_raises(c)
               /\ circles = << Circle(g[1], g[2], g[3], c, f, video_height) >>
          /\ rectangles = << >>
       \/ /\ \E g \in RectGeoms, c \in RawColors, f \in Frames :
               /\ ~filter_nan_raises(c)
               /\ rectangles =
                     << Rectangle(g[1], g[2], g[3], g[4], c, f, video_height) >>
          /\ circles = << >>
    /\ candidate = NoCandidate
    /\ call = NoCall
    /\ pc = "idle"
    /\ NoRun

\* new_circle = Circle(x, y, r, color, frame, video_height)
NewCircle(g, c, f) ==
    /\ pc = "idle"
    /\ circles # << >>
    /\ \A i \in DOMAIN circles : Len(circles[i].data) < MaxData
    /\ ~filter_nan_raises(c)
    /\ candidate' = [kind |-> "circle",
                     obj |-> Circle(g[1], g[2], g[3], c, f, video_height)]
    /\ pc' = "ready"
    /\ UNCHANGED <<circles, rectangles, video_height, call>>
    /\ UNCHANGED runVars

\* new_rectangle = Rectangle(x, y, w, h, color, frame, video_height)
NewRectangle(g, c, f) ==
    /\ pc = "idle"
    /\ rectangles # << >>
    /\ \A i \in DOMAIN rectangles : Len(rectangles[i].data) < MaxData
    /\ ~filter_nan_raises(c)
    /\ candidate' = [kind |-> "rectangle",
                     obj |-> Rectangle(g[1], g[2], g[3], g[4], c, f, video_height)]
    /\ pc' = "ready"
    /\ UNCHANGED <<circles, rectangles, video_height, call>>
    /\ UNCHANGED runVars

\* circles[i].same_circle(candidate, video_height)
CallSameCircle(i) ==
    /\ pc = "ready"
    /\ candidate.kind = "circle"
    /\ LET r == same_circle(circles[i], candidate.obj, video_height) IN
         /\ circles' = [circles EXCEPT ![i] = r.self]
         /\ candidate' = [candidate EXCEPT !.obj = r.circle]
         /\ call' = [kind |-> "circle", idx |-> i, before |-> circles[i],
                     arg |-> candidate.obj, ret |-> r.ret]
    /\ pc' = "called"
    /\ UNCHANGED <<rectangles, video_height>>
    /\ UNCHANGED runVars

\* rectangles[i].same_rectangle(candidate, video_height)
CallSameRectangle(i) ==
    /\ pc = "ready"
    /\ candidate.kind = "rectangle"
    /\ LET r == same_rectangle(rectangles[i], candidate.obj, video_height) IN
         /\ rectangles' = [rectangles EXCEPT ![i] = r.self]
         /\ candidate' = [candidate EXCEPT !.obj = r.rectangle]
         /\ call' = [kind |-> "rectangle", idx |-> i, before |-> rectangles[i],
                     arg |-> candidate.obj, ret |-> r.ret]
    /\ pc' = "called"
    /\ UNCHANGED <<circles, video_height>>
    /\ UNCHANGED runVars

\* The caller drops the candidate and is ready for the next one.
Return ==
    /\ pc = "called"
    /\ candidate' = NoCandidate
    /\ call' = NoCall
    /\ pc' = "idle"
    /\ UNCHANGED <<circles, rectangles, video_height>>
    /\ UNCHANGED runVars

Next ==
    \/ \E g \in CircleGeoms, c \in RawColors, f \in Frames : NewCircle(g, c, f)
    \/ \E g \in RectGeoms, c \in RawColors, f \in Frames : NewRectangle(g, c, f)
    \/ \E i \in DOMAIN circles : CallSameCircle(i)
    \/ \E i \in DOMAIN rectangles : CallSameRectangle(i)
    \/ Return

Spec == Init /\ [][Next]_vars

(* --------------------------- the call under test ----------------------- *)

\* A merge call has just returned.
Called == pc = "called"
\* The entity before the call, as it is after it, and the candidate before it.
Before == call.before
After == IF call.kind = "circle" THEN circles[call.idx] ELSE rectangles[call.idx]
Arg == call.arg
Gap == Arg.frame - Before.frame

Sq(n) == n * n

\* Circles a and b are within the default thresholds (distance 50, radius 17).
WithinCircleThresholds(a, b) ==
    /\ Sq(a.x - b.x) + Sq(a.y - b.y) <= Sq(50)
    /\ Abs(a.radius - b.radius) <= 17

\* Boxes a and b are within the default thresholds (centre distance 40, size 5).
WithinRectangleThresholds(a, b) ==
    /\ Sq((a.x + a.width \div 2) - (b.x + b.width \div 2))
         + Sq((a.y + a.height \div 2) - (b.y + b.height \div 2)) <= Sq(40)
    /\ Abs(a.width - b.width) <= 5
    /\ Abs(a.height - b.height) <= 5

GeometryWithin ==
    IF call.kind = "circle" THEN WithinCircleThresholds(Before, Arg)
    ELSE WithinRectangleThresholds(Before, Arg)

\* A color that is present with 3 numeric channels in [0, 255].
ColorValid(c) ==
    /\ ~c.none
    /\ Len(c.ch) = 3
    /\ \A k \in 1..3 : c.ch[k].t = "float" /\ c.ch[k].v \in 0..255

ColorsValidAndSimilar(c1, c2) ==
    /\ ColorValid(c1) /\ ColorValid(c2)
    /\ \A k \in 1..3 : Abs(c1.ch[k].v - c2.ch[k].v) <= 30

ColorsValidAndDissimilar(c1, c2) ==
    /\ ColorValid(c1) /\ ColorValid(c2)
    /\ \E k \in 1..3 : Abs(c1.ch[k].v - c2.ch[k].v) > 30

Rejected == call.ret = FALSE /\ After = Before

Entities ==
    {circles[i] : i \in DOMAIN circles} \cup {rectangles[i] : i \in DOMAIN rectangles}

IsPrefix(s, t) == Len(s) <= Len(t) /\ \A k \in 1..Len(s) : s[k] = t[k]

(* ------------------------------- claims -------------------------------- *)

\* C1: a merge attempt whose observation frame is <= the entity's current
\* frame returns False and leaves the entity and its trajectory unchanged,
\* for both kinds and whatever the geometry and colors are.
C1_ChronologyRejects ==
    (Called /\ Arg.frame <= Before.frame) => Rejected

\* C1 witness: an entity that has merged once is offered a close, similarly
\* colored candidate of its own frame or an earlier one, and rejects it.
C1_Witness ==
    /\ Called
    /\ Len(Before.data) >= 2
    /\ Arg.frame <= Before.frame
    /\ GeometryWithin
    /\ ColorsValidAndSimilar(Before.color, Arg.color)
    /\ call.ret = FALSE

\* C2: with geometry within the thresholds and valid, similar colors, a merge
\* attempt at a frame gap of exactly 20 succeeds, and one at a gap of 21 or
\* more fails and leaves the entity's current frame unchanged.
C2_GapBoundary ==
    (Called /\ GeometryWithin /\ ColorsValidAndSimilar(Before.color, Arg.color))
    => /\ Gap = 20 => call.ret = TRUE
       /\ Gap >= 21 => (call.ret = FALSE /\ After.frame = Before.frame)

\* C2 witness: a rectangle merge accepted at a gap of exactly 20.
C2_Witness ==
    /\ Called
    /\ call.kind = "rectangle"
    /\ GeometryWithin
    /\ ColorsValidAndSimilar(Before.color, Arg.color)
    /\ Gap = 20
    /\ call.ret = TRUE

\* C3: an observation 1 to 20 frames ahead, within the thresholds and of a
\* valid similar color is merged: the call returns True, the entity's frame
\* becomes the observation's and the trajectory grows by one entry; and over
\* any call the entity's frame never decreases and strictly increases on
\* success.
C3_MergeAdvances ==
    Called =>
      /\ (Gap \in 1..20 /\ GeometryWithin
            /\ ColorsValidAndSimilar(Before.color, Arg.color))
         => /\ call.ret = TRUE
            /\ After.frame = Arg.frame
            /\ Len(After.data) = Len(Before.data) + 1
      /\ After.frame >= Before.frame
      /\ call.ret = TRUE => After.frame > Before.frame

\* C3 witness: the second successful merge into a circle.
C3_Witness ==
    /\ Called
    /\ call.kind = "circle"
    /\ Gap \in 1..20
    /\ GeometryWithin
    /\ ColorsValidAndSimilar(Before.color, Arg.color)
    /\ call.ret = TRUE
    /\ Len(After.data) = 3

\* C4: same_circle rejects, without mutating the entity, an observation that
\* passes the chronology, gap and geometry checks when both colors are valid
\* and some channel differs by more than the tolerance 30.
C4_CircleRejectsDissimilarColor ==
    (Called /\ call.kind = "circle" /\ Gap \in 1..20
       /\ WithinCircleThresholds(Before, Arg)
       /\ ColorsValidAndDissimilar(Before.color, Arg.color))
    => Rejected

\* C5: for both kinds, a merge attempt in which the entity's or the
\* observation's color is absent or invalid is rejected and the entity and
\* its trajectory are not mutated.
C5_UnknownColorRejects ==
    (Called /\ (~ColorValid(Before.color) \/ ~ColorValid(Arg.color)))
    => Rejected

\* C6: a rejected merge attempt leaves the entity and its trajectory exactly
\* as they were, and no merge attempt modifies the candidate observation.
C6_RejectionLeavesEntity ==
    Called =>
      /\ call.ret = FALSE => After = Before
      /\ candidate.obj = Arg

\* C6 witness: a rectangle attempt rejected by the color check alone.
C6_Witness ==
    /\ Called
    /\ call.kind = "rectangle"
    /\ Gap \in 1..20
    /\ GeometryWithin
    /\ ColorsValidAndDissimilar(Before.color, Arg.color)
    /\ call.ret = FALSE

\* C7: after every successful same_rectangle the entity's x, y, width, height
\* and frame equal the observation's x, y, width, height and frame.
C7_RectangleTakesObservation ==
    (Called /\ call.kind = "rectangle" /\ call.ret = TRUE)
    => /\ After.x = Arg.x
       /\ After.y = Arg.y
       /\ After.width = Arg.width
       /\ After.height = Arg.height
       /\ After.frame = Arg.frame

\* C8: in every reachable state an entity's current geometry, color and frame
\* equal those of the last entry of its trajectory, whose y is video_height
\* minus the entity's current y.
C8_CurrentEqualsLastEntry ==
    /\ \A i \in DOMAIN circles :
         LET e == circles[i]
             l == e.data[Len(e.data)]
         IN  /\ l.x = e.x
             /\ l.y = video_height - e.y
             /\ l.radius = e.radius
             /\ l.color = e.color
             /\ l.frame = e.frame
    /\ \A i \in DOMAIN rectangles :
         LET e == rectangles[i]
             l == e.data[Len(e.data)]
         IN  /\ l.x = e.x
             /\ l.y = video_height - e.y
             /\ l.width = e.width
             /\ l.height = e.height
             /\ l.color = e.color
             /\ l.frame = e.frame

\* Every trajectory is non-empty with strictly increasing frames.
TrajectoriesOrdered ==
    \A e \in Entities :
       /\ Len(e.data) >= 1
       /\ \A k \in 1..(Len(e.data) - 1) : e.data[k].frame < e.data[k + 1].frame

\* A step keeps every entity in place and only extends its trajectory.
TrajectoriesExtended ==
    /\ \A i \in DOMAIN circles :
         i \in DOMAIN circles' /\ IsPrefix(circles[i].data, circles'[i].data)
    /\ \A i \in DOMAIN rectangles :
         i \in DOMAIN rectangles'
         /\ IsPrefix(rectangles[i].data, rectangles'[i].data)

\* C9: every trajectory is non-empty from creation, is only ever appended to
\* (entries are never removed, reordered or modified) and has strictly
\* increasing frames.
C9_TrajectoryAppendOnly ==
    []TrajectoriesOrdered /\ [][TrajectoriesExtended]_vars

\* C9 witness: an accepted merge has just made a trajectory of three entries.
C9_Witness ==
    /\ Called
    /\ call.ret = TRUE
    /\ Len(After.data) = 3
    /\ IsPrefix(Before.data, After.data)

\* C10: consecutive entries of a trajectory are at most 20 frames apart.
C10_ConsecutiveGapAtMost20 ==
    \A e \in Entities :
       \A k \in 1..(Len(e.data) - 1) : e.data[k + 1].frame - e.data[k].frame <= 20

\* C10 witness: a trajectory with two entries exactly 20 frames apart, and a
\* candidate 21 frames after the entity's last entry has just been refused.
C10_Witness ==
    /\ Called
    /\ Gap = 21
    /\ GeometryWithin
    /\ ColorsValidAndSimilar(Before.color, Arg.color)
    /\ After = Before
    /\ \E k \in 1..(Len(After.data) - 1) :
          After.data[k + 1].frame - After.data[k].frame = 20

(* --------------------------- app/tracker.py ---------------------------- *)
(* Encodings.                                                              *)
(*  - The data directory is [exists, creatable, entries]: creatable says   *)
(*    whether os.makedirs succeeds; an entry is [name, type, locked] with  *)
(*    type "file" or "dir", and os.remove fails (OSError) on a locked one. *)
(*  - A file name is a sequence of string tokens; `part in filename` holds *)
(*    when part is one of the tokens.                                      *)
(*  - A Tracker is [circles, rectangles, video_height].                    *)

\* The shape <<height, width>> of the frames of the video.
FrameShape == <<1080, 1920>>

\* CPython keeps one object per int in -5..SmallIntMax.
SmallIntMax == 256

\* The decimal form of a save index.
Str(n) == IF n \in 1..9
          THEN <<"1", "2", "3", "4", "5", "6", "7", "8", "9">>[n]
          ELSE "0"

\* part in filename
contains(filename, part) == \E k \in DOMAIN filename : filename[k] = part

is_record_name(filename) ==
    contains(filename, "circle_data_") \/ contains(filename, "rectangle_data_")

\* Mutant of delete_dir: the os.path.isfile test is missing.
delete_dir_any_type(dir) ==
    LET made == IF ~dir.exists /\ dir.creatable
                THEN [dir EXCEPT !.exists = TRUE] ELSE dir
    IN  IF ~made.exists
        THEN [fs |-> made, raised |-> "FileNotFoundError", errors |-> {}]
        ELSE [fs |-> [made EXCEPT !.entries =
                        {e \in @ : ~(is_record_name(e.name) /\ ~e.locked)}],
              raised |-> "none",
              errors |-> {e \in made.entries :
                            is_record_name(e.name) /\ e.locked}]

\* Tracker.delete_dir: the directory as the call leaves it, the exception
\* that leaves the call (os.listdir of a directory that could not be made)
\* and the entries whose removal failed and was logged.
delete_dir(dir) ==
    LET made == IF ~dir.exists /\ dir.creatable
                THEN [dir EXCEPT !.exists = TRUE] ELSE dir
    IN  IF ~made.exists
        THEN [fs |-> made, raised |-> "FileNotFoundError", errors |-> {}]
        ELSE [fs |-> [made EXCEPT !.entries =
                        {e \in @ : ~(e.type = "file" /\ is_record_name(e.name)
                                       /\ ~e.locked)}],
              raised |-> "none",
              errors |-> {e \in made.entries :
                            e.type = "file" /\ is_record_name(e.name)
                              /\ e.locked}]

\* Mutant of load_video: the failure is logged and not raised.
load_video_no_raise(vh, opened) ==
    IF ~opened
    THEN [raised |-> "none", video_height |-> vh, state |-> "failed"]
    ELSE [raised |-> "none", video_height |-> FrameShape[1], state |-> "open"]

\* Tracker.load_video, opened being video.isOpened() after the capture is made.
load_video(vh, opened) ==
    IF ~opened
    THEN [raised |-> "FileNotFoundError", video_height |-> vh, state |-> "failed"]
    ELSE [raised |-> "none", video_height |-> FrameShape[1], state |-> "open"]

\* The circle lies inside the frame (tracker.py:123-128).
in_frame(x, y, r, shape) ==
    /\ y - r >= 0
    /\ y + r < shape[1]
    /\ x - r >= 0
    /\ x + r < shape[2]

\* Mutant of scan_circles: every entity is tried, also after one accepted.
RECURSIVE scan_circles_all(_, _, _, _)
scan_circles_all(reg, new_circle, vh, i) ==
    IF i > Len(reg) THEN [registry |-> reg, found |-> FALSE]
    ELSE LET r == same_circle(reg[i], new_circle, vh)
             rest == scan_circles_all([reg EXCEPT ![i] = r.self], new_circle,
                                      vh, i + 1)
         IN  [registry |-> rest.registry, found |-> r.ret \/ rest.found]

\* any(circle.same_circle(new_circle, vh) for circle in self.circles), from
\* entity i on: the registry as the scan leaves it and the value of any().
RECURSIVE scan_circles(_, _, _, _)
scan_circles(reg, new_circle, vh, i) ==
    IF i > Len(reg) THEN [registry |-> reg, found |-> FALSE]
    ELSE LET r == same_circle(reg[i], new_circle, vh) IN
         IF r.ret
         THEN [registry |-> [reg EXCEPT ![i] = r.self], found |-> TRUE]
         ELSE scan_circles([reg EXCEPT ![i] = r.self], new_circle, vh, i + 1)

\* Mutant of scan_rectangles: the loop has no break.
RECURSIVE scan_rectangles_no_break(_, _, _, _)
scan_rectangles_no_break(reg, new_rectangle, vh, i) ==
    IF i > Len(reg) THEN [registry |-> reg, found |-> FALSE]
    ELSE LET r == same_rectangle(reg[i], new_rectangle, vh)
             rest == scan_rectangles_no_break([reg EXCEPT ![i] = r.self],
                                              new_rectangle, vh, i + 1)
         IN  [registry |-> rest.registry, found |-> r.ret \/ rest.found]

\* The for loop over self.rectangles with its break, from entity i on.
RECURSIVE scan_rectangles(_, _, _, _)
scan_rectangles(reg, new_rectangle, vh, i) ==
    IF i > Len(reg) THEN [registry |-> reg, found |-> FALSE]
    ELSE LET r == same_rectangle(reg[i], new_rectangle, vh) IN
         IF r.ret
         THEN [registry |-> [reg EXCEPT ![i] = r.self], found |-> TRUE]
         ELSE scan_rectangles([reg EXCEPT ![i] = r.self], new_rectangle, vh,
                              i + 1)

\* Mutant of process_circle: a new circle is put at the head of the registry.
process_circle_prepends(self, x, y, r, color, frame, shape) ==
    IF ~in_frame(x, y, r, shape)
    THEN [self |-> self, outcome |-> "out_of_frame"]
    ELSE LET new_circle == Circle(x, y, r, color, frame, self.video_height)
             s == scan_circles(self.circles, new_circle, self.video_height, 1)
         IN  IF ~s.found
             THEN [self |-> [self EXCEPT !.circles = <<new_circle>> \o s.registry],
                   outcome |-> "new"]
             ELSE [self |-> [self EXCEPT !.circles = s.registry],
                   outcome |-> "merged"]

\* Mutant of process_circle: the new circle is appended to self.rectangles.
process_circle_wrong_registry(self, x, y, r, color, frame, shape) ==
    IF ~in_frame(x, y, r, shape)
    THEN [self |-> self, outcome |-> "out_of_frame"]
    ELSE LET new_circle == Circle(x, y, r, color, frame, self.video_height)
             s == scan_circles(self.circles, new_circle, self.video_height, 1)
         IN  IF ~s.found
             THEN [self |-> [self EXCEPT !.circles = s.registry,
                                         !.rectangles = Append(@, new_circle)],
                   outcome |-> "new"]
             ELSE [self |-> [self EXCEPT !.circles = s.registry],
                   outcome |-> "merged"]

\* The body of the loop of Tracker.process_circles for one detected circle:
\* the tracker as it leaves it.
process_circle(self, x, y, r, color, frame, shape) ==
    IF ~in_frame(x, y, r, shape)
    THEN [self |-> self, outcome |-> "out_of_frame"]
    ELSE LET new_circle == Circle(x, y, r, color, frame, self.video_height)
             s == scan_circles(self.circles, new_circle, self.video_height, 1)
         IN  IF ~s.found
             THEN [self |-> [self EXCEPT !.circles = Append(s.registry, new_circle)],
                   outcome |-> "new"]
             ELSE [self |-> [self EXCEPT !.circles = s.registry],
                   outcome |-> "merged"]

\* The values `w is not h` can take for ints w and h: equal ints are one
\* object inside the small-int range and may be two objects outside it.
is_not(w, h) ==
    IF w # h THEN {TRUE}
    ELSE IF -5 <= w /\ w <= SmallIntMax THEN {FALSE}
    ELSE {TRUE, FALSE}

\* Mutant of process_rectangle: a new rectangle is registered without a scan.
process_rectangle_no_scan(self, x, y, w, h, color, frame, distinct) ==
    IF w # h THEN [self |-> self, outcome |-> "not_square"]
    ELSE IF distinct THEN [self |-> self, outcome |-> "skipped"]
    ELSE [self |-> [self EXCEPT !.rectangles =
                      Append(@, Rectangle(x, y, w, h, color, frame,
                                          self.video_height))],
          outcome |-> "new"]

\* Tracker.process_rectangles for one contour with bounding box x, y, w, h,
\* distinct being the value of `w is not h`.
process_rectangle(self, x, y, w, h, color, frame, distinct) ==
    IF w # h THEN [self |-> self, outcome |-> "not_square"]
    ELSE LET new_rectangle == Rectangle(x, y, w, h, color, frame,
                                        self.video_height)
             s == scan_rectangles(self.rectangles, new_rectangle,
                                  self.video_height, 1)
         IN  IF distinct THEN [self |-> self, outcome |-> "skipped"]
             ELSE IF ~s.found
             THEN [self |-> [self EXCEPT !.rectangles =
                               Append(s.registry, new_rectangle)],
                   outcome |-> "new"]
             ELSE [self |-> [self EXCEPT !.rectangles = s.registry],
                   outcome |-> "merged"]

\* Mutant of save_index: the index is taken before it is incremented.
save_index_from_zero(done) == done

\* x += 1 before each save: the index of the save after `done` saves.
save_index(done) == done + 1

\* Mutant of save_record: the failure of the write leaves the call.
save_record_unguarded(dir, prefix, name, io_ok) ==
    IF io_ok
    THEN [fs |-> [dir EXCEPT !.exists = TRUE,
                             !.entries = @ \cup
                                {[name |-> <<prefix, Str(name), ".json">>,
                                  type |-> "file", locked |-> FALSE]}],
          raised |-> "none", logged |-> "info"]
    ELSE [fs |-> dir, raised |-> "OSError", logged |-> "none"]

\* Circle.save_circle and Rectangle.save_rectangle: the file
\* <prefix><name>.json is written, or the failure is caught and logged.
save_record(dir, prefix, name, io_ok) ==
    IF io_ok
    THEN [fs |-> [dir EXCEPT !.exists = TRUE,
                             !.entries = @ \cup
                                {[name |-> <<prefix, Str(name), ".json">>,
                                  type |-> "file", locked |-> FALSE]}],
          raised |-> "none", logged |-> "info"]
    ELSE [fs |-> dir, raised |-> "none", logged |-> "error"]

\* Mutant of FrameLimit: the loop runs for one more frame.
FrameLimitLong == 1000 + 1

\* The frame limit of the loop of Tracker.track.
FrameLimit == 1000

(* ------------------------ bounds of a tracked run ---------------------- *)

\* Frames the video yields before its stream ends.
MaxVideoFrames == 2
\* Shapes the detectors report over a whole run.
MaxDetections == 3

(* ------------------------- inputs of a tracked run --------------------- *)

\* Detected circles <<x, y, r>>: two that are 50 apart, and one that crosses
\* the border of the frame.
TrackCircles == { <<100, 200, 50>>, <<130, 240, 50>>, <<30, 40, 50>> }

\* Bounding boxes <<x, y, w, h>>: two close squares, a box that is not
\* square and a square with a side outside the small-int range.
TrackBoxes == { <<10, 20, 100, 100>>, <<15, 25, 100, 100>>,
                <<10, 20, 100, 98>>, <<10, 20, 300, 300>> }

\* Sampled colors: the detectors yield three floats in [0, 255].
TrackColors == { Tuple(<<Float(255), Float(0), Float(0)>>) }

OldCircleRecord ==
    [name |-> <<"circle_data_", "1", ".json">>, type |-> "file", locked |-> FALSE]
OldRectangleRecord ==
    [name |-> <<"rectangle_data_", "1", ".json">>, type |-> "file",
     locked |-> FALSE]
OtherFile == [name |-> <<"other_file", ".txt">>, type |-> "file", locked |-> FALSE]

\* The data directory before a run: the records of an earlier run beside
\* another file, or no directory and no way to make one.
TrackDirs ==
    { [exists |-> TRUE, creatable |-> TRUE,
       entries |-> {OldCircleRecord, OldRectangleRecord, OtherFile}],
      [exists |-> FALSE, creatable |-> FALSE, entries |-> {}] }

(* --------------------------- Tracker.track ----------------------------- *)

Self == [circles |-> circles, rectangles |-> rectangles,
         video_height |-> video_height]

\* The values video.isOpened() can take.
is_opened(v) == IF v.state = "open" THEN {TRUE, FALSE} ELSE {FALSE}

\* The loop is left: video.release(), then the saves.
Stopped(reason) ==
    /\ video' = [video EXCEPT !.state = "released", !.stop = reason]
    /\ pc' = "save_circles"

TrackInit ==
    /\ circles = << >>
    /\ rectangles = << >>
    /\ video_height = 0
    /\ candidate = NoCandidate
    /\ call = NoCall
    /\ pc = "track"
    /\ frame_counter = 0
    /\ video = NoVideo
    /\ saves = << >>
    /\ fs \in TrackDirs
    /\ raised = "none"
    /\ ingest = NoIngest
    /\ probe = NoProbe
    /\ loading = NoLoad

\* Mutant of StartTrack: the records of the earlier run are not deleted.
StartTrack_keeps_records ==
    /\ pc = "track"
    /\ pc' = "load_video"
    /\ UNCHANGED <<circles, rectangles, video_height, candidate, call,
                   frame_counter, video, saves, fs, raised, ingest, probe,
                   loading>>

\* frame_counter = 0; self.delete_dir()
StartTrack ==
    /\ pc = "track"
    /\ LET d == delete_dir(fs) IN
         /\ fs' = d.fs
         /\ raised' = d.raised
         /\ pc' = IF d.raised # "none" THEN "raised" ELSE "load_video"
    /\ UNCHANGED <<circles, rectangles, video_height, candidate, call,
                   frame_counter, video, saves, ingest, probe, loading>>

\* video = self.load_video()
LoadVideo ==
    /\ pc = "load_video"
    /\ \E opened \in BOOLEAN :
         LET v == load_video(video_height, opened) IN
           /\ video' = [video EXCEPT !.state = v.state]
           /\ video_height' = v.video_height
           /\ raised' = v.raised
           /\ pc' = IF v.raised # "none" THEN "raised" ELSE "loop"
    /\ UNCHANGED <<circles, rectangles, candidate, call, frame_counter, saves,
                   fs, ingest, probe, loading>>

\* Mutant of LoopTest: a frame index is skipped.
LoopTest_skips_index ==
    /\ pc = "loop"
    /\ \E opened \in is_opened(video) :
         IF opened /\ frame_counter < FrameLimit
         THEN /\ frame_counter' = frame_counter + 2
              /\ pc' = "read"
              /\ UNCHANGED video
         ELSE /\ Stopped(IF ~opened THEN "closed" ELSE "limit")
              /\ UNCHANGED frame_counter
    /\ UNCHANGED <<circles, rectangles, video_height, candidate, call, saves,
                   fs, raised, ingest, probe, loading>>

\* while video.isOpened() and frame_counter < 1000: frame_counter += 1
LoopTest ==
    /\ pc = "loop"
    /\ \E opened \in is_opened(video) :
         IF opened /\ frame_counter < FrameLimit
         THEN /\ frame_counter' = frame_counter + 1
              /\ pc' = "read"
              /\ UNCHANGED video
         ELSE /\ Stopped(IF ~opened THEN "closed" ELSE "limit")
              /\ UNCHANGED frame_counter
    /\ UNCHANGED <<circles, rectangles, video_height, candidate, call, saves,
                   fs, raised, ingest, probe, loading>>

\* ret, frame = video.read(): a frame, no frame, or a ValueError.
ReadFrame ==
    /\ pc = "read"
    /\ \/ /\ frame_counter <= MaxVideoFrames
          /\ pc' = "circles"
          /\ UNCHANGED video
       \/ Stopped("not_ret")
       \/ Stopped("ValueError")
    /\ UNCHANGED <<circles, rectangles, video_height, candidate, call,
                   frame_counter, saves, fs, raised, ingest, probe, loading>>

\* One turn of the loop over the detected circles in process_circles.
DetectCircle(g, c) ==
    /\ pc = "circles"
    /\ video.detections < MaxDetections
    /\ LET r == process_circle(Self, g[1], g[2], g[3], c, frame_counter,
                               FrameShape)
       IN  /\ circles' = r.self.circles
           /\ rectangles' = r.self.rectangles
           /\ video_height' = r.self.video_height
           /\ ingest' = [kind |-> "circle", geom |-> g, color |-> c,
                         before |-> Self, outcome |-> r.outcome]
    /\ video' = [video EXCEPT !.detections = @ + 1]
    /\ UNCHANGED <<candidate, call, pc, frame_counter, saves, fs, raised, probe, loading>>

\* process_circles returns; process_rectangles is called.
EndCircles ==
    /\ pc = "circles"
    /\ pc' = "rectangles"
    /\ ingest' = NoIngest
    /\ UNCHANGED <<circles, rectangles, video_height, candidate, call,
                   frame_counter, video, saves, fs, raised, probe, loading>>

\* process_rectangles for one contour of four corners.
DetectRectangle(g, c) ==
    /\ pc = "rectangles"
    /\ video.detections < MaxDetections
    /\ \E distinct \in is_not(g[3], g[4]) :
         LET r == process_rectangle(Self, g[1], g[2], g[3], g[4], c,
                                    frame_counter, distinct)
         IN  /\ circles' = r.self.circles
             /\ rectangles' = r.self.rectangles
             /\ video_height' = r.self.video_height
             /\ ingest' = [kind |-> "rectangle", geom |-> g, color |-> c,
                           before |-> Self, outcome |-> r.outcome]
    /\ video' = [video EXCEPT !.detections = @ + 1]
    /\ UNCHANGED <<candidate, call, pc, frame_counter, saves, fs, raised, probe, loading>>

\* process_rectangles returns; the frame is shown.
EndRectangles ==
    /\ pc = "rectangles"
    /\ pc' = "key"
    /\ ingest' = NoIngest
    /\ UNCHANGED <<circles, rectangles, video_height, candidate, call,
                   frame_counter, video, saves, fs, raised, probe, loading>>

\* if cv2.waitKey(1) & 0xFF == ord("q"): break
WaitKey ==
    /\ pc = "key"
    /\ \/ Stopped("key")
       \/ pc' = "loop" /\ UNCHANGED video
    /\ UNCHANGED <<circles, rectangles, video_height, candidate, call,
                   frame_counter, saves, fs, raised, ingest, probe, loading>>

\* One turn of a save loop for the entity at position `done + 1`.
Save(kind, prefix, done) ==
    \E io_ok \in BOOLEAN :
       LET x == save_index(done)
           r == save_record(fs, prefix, x, io_ok)
       IN  /\ saves' = Append(saves, [kind |-> kind, entity |-> done + 1,
                                      name |-> x, ok |-> io_ok,
                                      logged |-> r.logged])
           /\ fs' = r.fs
           /\ raised' = r.raised
           /\ pc' = IF r.raised # "none" THEN "raised" ELSE pc

\* for circle in self.circles: x += 1; circle.save_circle(x)
SaveCircle ==
    /\ pc = "save_circles"
    /\ Len(saves) < Len(circles)
    /\ Save("circle", "circle_data_", Len(saves))
    /\ UNCHANGED <<circles, rectangles, video_height, candidate, call,
                   frame_counter, video, ingest, probe, loading>>

SaveCirclesDone ==
    /\ pc = "save_circles"
    /\ Len(saves) >= Len(circles)
    /\ pc' = "save_rectangles"
    /\ UNCHANGED <<circles, rectangles, video_height, candidate, call,
                   frame_counter, video, saves, fs, raised, ingest, probe, loading>>

\* for rectangle in self.rectangles: x += 1; rectangle.save_rectangle(x)
SaveRectangle ==
    /\ pc = "save_rectangles"
    /\ Len(saves) - Len(circles) < Len(rectangles)
    /\ Save("rectangle", "rectangle_data_", Len(saves) - Len(circles))
    /\ UNCHANGED <<circles, rectangles, video_height, candidate, call,
                   frame_counter, video, ingest, probe, loading>>

SaveRectanglesDone ==
    /\ pc = "save_rectangles"
    /\ Len(saves) - Len(circles) >= Len(rectangles)
    /\ pc' = "done"
    /\ UNCHANGED <<circles, rectangles, video_height, candidate, call,
                   frame_counter, video, saves, fs, raised, ingest, probe, loading>>

TrackNext ==
    \/ StartTrack
    \/ LoadVideo
    \/ LoopTest
    \/ ReadFrame
    \/ \E g \in TrackCircles, c \in TrackColors : DetectCircle(g, c)
    \/ EndCircles
    \/ \E g \in TrackBoxes, c \in TrackColors : DetectRectangle(g, c)
    \/ EndRectangles
    \/ WaitKey
    \/ SaveCircle
    \/ SaveCirclesDone
    \/ SaveRectangle
    \/ SaveRectanglesDone

TrackSpec == TrackInit /\ [][TrackNext]_vars

(* ------------------------ the ingestion under test --------------------- *)

\* One detected shape has just been handled by process_circles or
\* process_rectangles, and it reached the scan of the registry.
Ingested == ingest.kind # "none"
Scanned == Ingested /\ ingest.outcome \in {"merged", "new"}

\* The observation built from the detected shape.
Obs ==
    IF ingest.kind = "circle"
    THEN Circle(ingest.geom[1], ingest.geom[2], ingest.geom[3], ingest.color,
                frame_counter, ingest.before.video_height)
    ELSE Rectangle(ingest.geom[1], ingest.geom[2], ingest.geom[3],
                   ingest.geom[4], ingest.color, frame_counter,
                   ingest.before.video_height)

\* The registry of the shape's kind before and after the ingestion.
RegBefore ==
    IF ingest.kind = "circle" THEN ingest.before.circles
    ELSE ingest.before.rectangles
RegAfter == IF ingest.kind = "circle" THEN circles ELSE rectangles

\* The entities that accept the observation when it is offered to them.
Acceptors ==
    {i \in DOMAIN RegBefore :
       IF ingest.kind = "circle"
       THEN same_circle(RegBefore[i], Obs, ingest.before.video_height).ret
       ELSE same_rectangle(RegBefore[i], Obs, ingest.before.video_height).ret}

First(S) == CHOOSE i \in S : \A j \in S : i <= j

\* Entity `after` is entity `before` with one more entry, for the observation.
AbsorbedObservation(before, after) ==
    /\ Len(after.data) = Len(before.data) + 1
    /\ IsPrefix(before.data, after.data)
    /\ after.data[Len(after.data)].frame = frame_counter
    /\ after.data[Len(after.data)].x = ingest.geom[1]
    /\ after.data[Len(after.data)].y = ingest.before.video_height - ingest.geom[2]

\* C11: existing entities are tried in registration order and the scan stops
\* at the first that accepts: when several would accept, only the earliest
\* registered one gets the trajectory entry and every other is unchanged.
C11_FirstMatchWins ==
    (Scanned /\ Acceptors # {}) =>
       /\ Len(RegAfter) = Len(RegBefore)
       /\ \A i \in DOMAIN RegBefore :
            IF i = First(Acceptors)
            THEN AbsorbedObservation(RegBefore[i], RegAfter[i])
            ELSE RegAfter[i] = RegBefore[i]

\* C11 witness: two registered circles accept the observation, and the scan
\* has merged it.
C11_Witness ==
    /\ Scanned
    /\ ingest.kind = "circle"
    /\ Cardinality(Acceptors) >= 2
    /\ ingest.outcome = "merged"
    /\ AbsorbedObservation(RegBefore[1], RegAfter[1])

\* C12: when no existing entity accepts, exactly one new entity seeded with
\* the observation is appended at the end of the kind's registry and every
\* existing entity is unchanged; when one accepts, the length is unchanged.
C12_NewEntityWhenNoneAccepts ==
    Scanned =>
       IF Acceptors = {}
       THEN /\ Len(RegAfter) = Len(RegBefore) + 1
            /\ \A i \in DOMAIN RegBefore : RegAfter[i] = RegBefore[i]
            /\ LET new == RegAfter[Len(RegAfter)] IN
                 /\ Len(new.data) = 1
                 /\ new.frame = frame_counter
                 /\ new.data[1].frame = frame_counter
                 /\ new.x = ingest.geom[1]
                 /\ new.y = ingest.geom[2]
                 /\ new.color = ingest.color
       ELSE Len(RegAfter) = Len(RegBefore)

\* C12 witness: a rectangle that no registered rectangle accepts has been
\* registered behind them.
C12_Witness ==
    /\ Scanned
    /\ ingest.kind = "rectangle"
    /\ RegBefore # << >>
    /\ Acceptors = {}
    /\ Len(RegAfter) = Len(RegBefore) + 1

\* Every entity of a registry is of the registry's kind.
KindsSeparate ==
    /\ \A i \in DOMAIN circles :
         \A k \in DOMAIN circles[i].data : "radius" \in DOMAIN circles[i].data[k]
    /\ \A i \in DOMAIN rectangles :
         \A k \in DOMAIN rectangles[i].data :
            "width" \in DOMAIN rectangles[i].data[k]

\* The ingestion of a shape gives the same registry of its kind when the
\* registry of the other kind is empty, and leaves that other registry as
\* it was.
OtherKindIgnored ==
    Ingested =>
       IF ingest.kind = "circle"
       THEN /\ rectangles = ingest.before.rectangles
            /\ circles =
                 process_circle([ingest.before EXCEPT !.rectangles = << >>],
                                ingest.geom[1], ingest.geom[2], ingest.geom[3],
                                ingest.color, frame_counter,
                                FrameShape).self.circles
       ELSE /\ circles = ingest.before.circles
            /\ \E distinct \in BOOLEAN :
                 rectangles =
                   process_rectangle([ingest.before EXCEPT !.circles = << >>],
                                     ingest.geom[1], ingest.geom[2],
                                     ingest.geom[3], ingest.geom[4],
                                     ingest.color, frame_counter,
                                     distinct).self.rectangles

\* A step of process_circles keeps the rectangles, one of process_rectangles
\* the circles.
PassKeepsOtherRegistry ==
    /\ pc = "circles" => rectangles' = rectangles
    /\ pc = "rectangles" => circles' = circles

\* C13: circles and rectangles are tracked independently: process_circles
\* never changes (nor depends on) the rectangle registry, process_rectangles
\* never the circle registry, and no observation of one kind is merged into
\* an entity of the other kind.
C13_KindsIndependent ==
    [](KindsSeparate /\ OtherKindIgnored) /\ [][PassKeepsOtherRegistry]_vars

\* C13 witness: a circle has been ingested while rectangles were registered.
C13_Witness ==
    /\ Scanned
    /\ ingest.kind = "circle"
    /\ ingest.before.rectangles # << >>
    /\ rectangles = ingest.before.rectangles
    /\ circles # ingest.before.circles

\* Entities that a step changes.
ChangedCircles == {i \in DOMAIN circles : circles'[i] # circles[i]}
ChangedRectangles == {i \in DOMAIN rectangles : rectangles'[i] # rectangles[i]}

\* A step removes and moves no entity, and changes at most one, by one
\* trajectory entry of the current frame.
RegistryStable ==
    /\ Len(circles') >= Len(circles)
    /\ Len(rectangles') >= Len(rectangles)
    /\ \A i \in DOMAIN circles :
         /\ circles'[i].data[1] = circles[i].data[1]
         /\ IsPrefix(circles[i].data, circles'[i].data)
    /\ \A i \in DOMAIN rectangles :
         /\ rectangles'[i].data[1] = rectangles[i].data[1]
         /\ IsPrefix(rectangles[i].data, rectangles'[i].data)
    /\ Cardinality(ChangedCircles) + Cardinality(ChangedRectangles) <= 1
    /\ \A i \in ChangedCircles :
         /\ Len(circles'[i].data) = Len(circles[i].data) + 1
         /\ circles'[i].data[Len(circles'[i].data)].frame = frame_counter
    /\ \A i \in ChangedRectangles :
         /\ Len(rectangles'[i].data) = Len(rectangles[i].data) + 1
         /\ rectangles'[i].data[Len(rectangles'[i].data)].frame = frame_counter

\* C14: during a run no entity is removed from a registry or moved within
\* it, registries never shrink, and entities are not merged into each other.
C14_RegistryStable == [][RegistryStable]_vars

\* C14 witness: at shutdown two circles registered in the first frame are
\* still there, one of them with a merged observation of a later frame.
C14_Witness ==
    /\ pc = "done"
    /\ Len(circles) >= 2
    /\ circles[1].data[1].frame = 1
    /\ circles[2].data[1].frame = 1
    /\ \E i \in DOMAIN circles : Len(circles[i].data) >= 2

\* The save calls made are those of the first n circles and m rectangles.
SavesAre(n, m) ==
    /\ Len(saves) = n + m
    /\ \A k \in 1..n :
         saves[k].kind = "circle" /\ saves[k].entity = k /\ saves[k].name = k
    /\ \A k \in 1..m :
         /\ saves[n + k].kind = "rectangle"
         /\ saves[n + k].entity = k
         /\ saves[n + k].name = k

\* C15: whenever the ingestion loop stops after the video was opened (no
\* frame, a read error, the stop key), the run goes on to persistence, and
\* at its end every registered circle and rectangle has had exactly one save
\* call, named by its 1-based position in its registry.
C15_PersistenceAfterStop ==
    /\ video.state = "released" =>
         /\ video.stop \in {"not_ret", "ValueError", "key", "closed", "limit"}
         /\ raised = "none"
         /\ pc \in {"save_circles", "save_rectangles", "done"}
         /\ pc # "done" => ENABLED TrackNext
    /\ pc = "done" => SavesAre(Len(circles), Len(rectangles))

\* C15 witness: a run stopped by a read error has saved a circle and a
\* rectangle.
C15_Witness ==
    /\ pc = "done"
    /\ video.stop = "ValueError"
    /\ Len(circles) >= 1
    /\ Len(rectangles) >= 1
    /\ SavesAre(Len(circles), Len(rectangles))

\* C16: a failure while writing one entity's record is caught and reported,
\* does not raise out of the save call and does not prevent the save
\* attempts for the remaining circles and rectangles.
C16_SaveFailureIsolated ==
    (\E k \in DOMAIN saves : ~saves[k].ok) =>
       /\ \A k \in DOMAIN saves : ~saves[k].ok => saves[k].logged = "error"
       /\ raised = "none"
       /\ pc \in {"save_circles", "save_rectangles", "done"}
       /\ pc # "done" => ENABLED TrackNext
       /\ pc = "done" => Len(saves) = Len(circles) + Len(rectangles)

\* C16 witness: the first save failed and the run ended with the saves of
\* the other entities made.
C16_Witness ==
    /\ pc = "done"
    /\ Len(saves) >= 3
    /\ ~saves[1].ok
    /\ saves[2].ok
    /\ saves[Len(saves)].kind = "rectangle"

\* C17: if the video source cannot be opened, load_video raises
\* FileNotFoundError and track propagates it: no frame is ingested, no
\* entity is created and no entity record is persisted.
C17_UnopenableVideoIsFatal ==
    video.state = "failed" =>
       /\ pc = "raised"
       /\ raised = "FileNotFoundError"
       /\ ~ENABLED TrackNext
       /\ frame_counter = 0
       /\ circles = << >>
       /\ rectangles = << >>
       /\ saves = << >>
       /\ \A e \in fs.entries : ~is_record_name(e.name)

\* C17 witness: the run has ended in load_video's exception.
C17_Witness ==
    /\ video.state = "failed"
    /\ pc = "raised"
    /\ raised = "FileNotFoundError"

\* C18: in process_rectangles a candidate whose width differs from its
\* height never changes the rectangle registry, and every candidate whose
\* width equals its height, whatever its size, is merged into an existing
\* rectangle or registered as a new one.
C18_SquareFilter ==
    (Ingested /\ ingest.kind = "rectangle") =>
       IF ingest.geom[3] # ingest.geom[4]
       THEN rectangles = ingest.before.rectangles
       ELSE /\ ingest.outcome \in {"merged", "new"}
            /\ rectangles # ingest.before.rectangles

(* ----------------------- Circle.are_colors_similar --------------------- *)
(* The comparison is applied to two colors in both orders.                 *)

\* Colors offered to the comparison: the raw colors, no color, tuples of two
\* and of four channels, an int channel, a negative channel and two valid
\* colors that differ in other channels.
ColorSamples ==
    RawColors \cup
    { None,
      Tuple(<<Float(255), Float(0)>>),
      Tuple(<<Float(255), Float(0), Float(0), Float(0)>>),
      Tuple(<<[t |-> "int", v |-> 255], Float(0), Float(0)>>),
      Tuple(<<Float(255), Float(0 - 1), Float(0)>>),
      Tuple(<<Float(255), Float(30), Float(0)>>),
      Tuple(<<Float(225), Float(0), Float(31)>>) }

Tolerances == {0 - 1, 0, 30, 60}

ColorInit ==
    /\ circles = << >>
    /\ rectangles = << >>
    /\ video_height = 0
    /\ candidate = NoCandidate
    /\ call = NoCall
    /\ pc = "idle"
    /\ NoRun

CompareColors(c1, c2, tolerance) ==
    /\ probe' = [op |-> "are_colors_similar", color1 |-> c1, color2 |-> c2,
                 tolerance |-> tolerance,
                 forward |-> are_colors_similar(c1, c2, tolerance),
                 backward |-> are_colors_similar(c2, c1, tolerance)]
    /\ UNCHANGED <<circles, rectangles, video_height, candidate, call, pc,
                   frame_counter, video, saves, fs, raised, ingest,
                   loading>>

\* Circle.is_valid_color(color)
CheckColor(color) ==
    /\ probe' = [op |-> "is_valid_color", color |-> color,
                 ret |-> is_valid_color(color)]
    /\ UNCHANGED <<circles, rectangles, video_height, candidate, call, pc,
                   frame_counter, video, saves, fs, raised, ingest, loading>>

ColorNext ==
    \/ \E c1 \in ColorSamples, c2 \in ColorSamples, tolerance \in Tolerances :
          CompareColors(c1, c2, tolerance)
    \/ \E color \in ColorSamples : CheckColor(color)

ColorSpec == ColorInit /\ [][ColorNext]_vars

\* C19: for all colors c1 and c2 (valid, invalid or absent) and every
\* tolerance, are_colors_similar(c1, c2) and are_colors_similar(c2, c1) give
\* the same result.
C19_ColorsSimilarSymmetric ==
    probe.op = "are_colors_similar" =>
       /\ probe.forward = probe.backward
       /\ probe.forward \in {"None", "np.True_", "np.False_"}
       /\ are_colors_similar(probe.color1, probe.color2, probe.tolerance)
            = are_colors_similar(probe.color2, probe.color1, probe.tolerance)

\* C19 witness: two valid colors, the first brighter than the second by
\* more than the tolerance, were compared in both orders.
C19_Witness ==
    /\ probe.op = "are_colors_similar"
    /\ is_valid_color(probe.color1)
    /\ is_valid_color(probe.color2)
    /\ probe.color1.ch[1].v - probe.color2.ch[1].v > probe.tolerance
    /\ probe.tolerance >= 0
    /\ probe.forward = "np.False_"
    /\ probe.backward = "np.False_"

(* --------------------------- Tracker.delete_dir ------------------------ *)
(* delete_dir is called on a data directory of any content.                *)

\* What the data directory can hold: records of both kinds, a record whose
\* removal fails, a record name inside a longer name, a name without the
\* final underscore, another file, and a directory named like a record.
DirEntries ==
    { OldCircleRecord, OldRectangleRecord, OtherFile,
      [name |-> <<"circle_data_", "2", ".json">>, type |-> "file",
       locked |-> TRUE],
      [name |-> <<"backup_", "rectangle_data_", "1", ".json">>,
       type |-> "file", locked |-> FALSE],
      [name |-> <<"circle_data", ".json">>, type |-> "file", locked |-> FALSE],
      [name |-> <<"rectangle_data_", "old">>, type |-> "dir",
       locked |-> FALSE] }

DirSamples ==
    { [exists |-> TRUE, creatable |-> TRUE, entries |-> es] :
        es \in SUBSET DirEntries }
    \cup { [exists |-> FALSE, creatable |-> c, entries |-> {}] : c \in BOOLEAN }

DirInit ==
    /\ circles = << >>
    /\ rectangles = << >>
    /\ video_height = 0
    /\ candidate = NoCandidate
    /\ call = NoCall
    /\ pc = "idle"
    /\ frame_counter = 0
    /\ video = NoVideo
    /\ saves = << >>
    /\ fs \in DirSamples
    /\ raised = "none"
    /\ ingest = NoIngest
    /\ probe = NoProbe
    /\ loading = NoLoad

CallDeleteDir ==
    /\ probe.op = "none"
    /\ LET r == delete_dir(fs) IN
         /\ fs' = r.fs
         /\ raised' = r.raised
         /\ probe' = [op |-> "delete_dir", before |-> fs, errors |-> r.errors]
    /\ UNCHANGED <<circles, rectangles, video_height, candidate, call, pc,
                   frame_counter, video, saves, ingest, loading>>

DirNext == CallDeleteDir

DirSpec == DirInit /\ [][DirNext]_vars

\* A regular file whose name contains "circle_data_" or "rectangle_data_".
IsRecordFile(e) ==
    /\ e.type = "file"
    /\ contains(e.name, "circle_data_") \/ contains(e.name, "rectangle_data_")

MaxSelected == 3

\* The files the dialog can return, by path, with what open and json.load
\* find there.  Two of them have the same name in different directories.
JsonFiles ==
    { [path |-> <<"data", "circle_data_1.json">>, found |-> "object",
       data |-> "trajectory_1"],
      [path |-> <<"old", "circle_data_1.json">>, found |-> "object",
       data |-> "trajectory_2"],
      [path |-> <<"data", "rectangle_data_1.json">>, found |-> "missing",
       data |-> "none"],
      [path |-> <<"data", "notes.json">>, found |-> "not_json",
       data |-> "none"],
      [path |-> <<"data", "settings.json">>, found |-> "object_without_data",
       data |-> "none"],
      [path |-> <<"data", "list.json">>, found |-> "array", data |-> "none"],
      [path |-> <<"data", "locked.json">>, found |-> "unreadable",
       data |-> "none"] }

\* The file at a path.
File(file_path) == CHOOSE f \in JsonFiles : f.path = file_path

\* The tuples askopenfilenames can return: distinct paths, or nothing.
Selections ==
    { sel \in UNION { [1..n -> {f.path : f \in JsonFiles}] : n \in 0..MaxSelected } :
        \A i, j \in DOMAIN sel : i # j => sel[i] # sel[j] }

\* file_path.split("/")[-1]
basename(file_path) == file_path[Len(file_path)]

\* The exception that open(file_path) or json.load(file)["data"] raises.
load_error(file) ==
    CASE file.found = "missing" -> "FileNotFoundError"
      [] file.found = "not_json" -> "JSONDecodeError"
      [] file.found = "object_without_data" -> "KeyError"
      [] file.found = "array" -> "TypeError"
      [] file.found = "unreadable" -> "PermissionError"
      [] OTHER -> "none"

\* Mutant of load_file: the name is appended before the file is opened.
load_file_name_first(all_data, file_names, log, file_path) ==
    LET file == File(file_path)
        names == Append(file_names, basename(file_path))
    IN  IF load_error(file) # "none"
        THEN [all_data |-> all_data, file_names |-> names,
              log |-> Append(log, "error"), raised |-> "none"]
        ELSE [all_data |-> Append(all_data, file.data), file_names |-> names,
              log |-> Append(log, "info"), raised |-> "none"]

\* One pass of the body of `for file_path in file_paths`: the three except
\* clauses catch every Exception, log an error and continue.
load_file(all_data, file_names, log, file_path) ==
    LET file == File(file_path) IN
      IF load_error(file) # "none"
      THEN [all_data |-> all_data, file_names |-> file_names,
            log |-> Append(log, "error"), raised |-> "none"]
      ELSE [all_data |-> Append(all_data, file.data),
            file_names |-> Append(file_names, basename(file_path)),
            log |-> Append(log, "info"), raised |-> "none"]

LoadInit ==
    /\ circles = << >>
    /\ rectangles = << >>
    /\ video_height = 0
    /\ candidate = NoCandidate
    /\ call = NoCall
    /\ pc = "idle"
    /\ frame_counter = 0
    /\ video = NoVideo
    /\ saves = << >>
    /\ fs = NoDir
    /\ raised = "none"
    /\ ingest = NoIngest
    /\ probe = NoProbe
    /\ \E sel \in Selections :
         loading = [pc |-> "dialog", file_paths |-> sel, next |-> 1,
                    all_data |-> << >>, file_names |-> << >>, log |-> << >>,
                    returned |-> "nothing"]

notLoading == <<circles, rectangles, video_height, candidate, call, pc,
                frame_counter, video, saves, fs, ingest, probe>>

\* file_paths = filedialog.askopenfilenames(...); if not file_paths: return
AskOpenFilenames ==
    /\ loading.pc = "dialog"
    /\ loading' = IF loading.file_paths = << >>
                  THEN [loading EXCEPT !.pc = "returned",
                                       !.log = Append(@, "error"),
                                       !.returned = "None, None"]
                  ELSE [loading EXCEPT !.pc = "loop"]
    /\ UNCHANGED raised
    /\ UNCHANGED notLoading

\* for file_path in file_paths: try ... except ...: continue
LoadFile ==
    /\ loading.pc = "loop"
    /\ loading.next <= Len(loading.file_paths)
    /\ LET r == load_file(loading.all_data, loading.file_names, loading.log,
                          loading.file_paths[loading.next])
       IN  /\ loading' = [loading EXCEPT
                            !.pc = IF r.raised # "none" THEN "raised" ELSE @,
                            !.next = @ + 1,
                            !.all_data = r.all_data,
                            !.file_names = r.file_names,
                            !.log = r.log]
           /\ raised' = r.raised
    /\ UNCHANGED notLoading

\* return all_data, file_names
ReturnLoaded ==
    /\ loading.pc = "loop"
    /\ loading.next > Len(loading.file_paths)
    /\ loading' = [loading EXCEPT !.pc = "returned",
                                  !.returned = "all_data, file_names"]
    /\ UNCHANGED raised
    /\ UNCHANGED notLoading

LoadNext == AskOpenFilenames \/ LoadFile \/ ReturnLoaded

LoadSpec == LoadInit /\ [][LoadNext]_vars

\* The selected paths, among the first n, whose file is a JSON object with
\* a "data" entry, in the order of the selection.
RECURSIVE Loadable(_, _)
Loadable(file_paths, n) ==
    IF n = 0 THEN << >>
    ELSE IF File(file_paths[n]).found = "object"
         THEN Append(Loadable(file_paths, n - 1), file_paths[n])
         ELSE Loadable(file_paths, n - 1)

C22_MergeTakesColor ==
    (Called /\ call.ret = TRUE) => After.color = Arg.color

\* The entry that a successful call has appended.
LastEntry == After.data[Len(After.data)]

\* The fields of entry e are those of observation o, with the y flipped.
EntryOf(e, o) ==
    /\ e.x = o.x
    /\ e.y = video_height - o.y
    /\ e.frame = o.frame
    /\ e.color = o.color
    /\ IF call.kind = "circle" \/ candidate.kind = "circle"
       THEN e.radius = o.radius
       ELSE e.width = o.width /\ e.height = o.height

\* C23: every trajectory entry appended by a successful merge carries the
\* observation's own x, frame, size fields and color, a y equal to
\* video_height minus the observation's y, and the merge distance, at most
\* 50 for circles and 40 for rectangles; the seeding entry carries the same
\* fields of the seeding observation and no distance.
C23_EntryCarriesObservation ==
    /\ (Called /\ call.ret = TRUE) =>
          /\ Len(After.data) = Len(Before.data) + 1
          /\ EntryOf(LastEntry, Arg)
          /\ LastEntry.distance # NoDistance
          /\ LastEntry.distance <= (IF call.kind = "circle" THEN Sq(50) ELSE Sq(40))
    /\ pc = "ready" =>
          /\ Len(candidate.obj.data) = 1
          /\ EntryOf(candidate.obj.data[1], candidate.obj)
          /\ candidate.obj.data[1].distance = NoDistance

(* ------------------ Circle.__init__, Rectangle.__init__ ---------------- *)
(* An entity is constructed from a color of any form.                      *)

\* Colors handed to the constructors: those of ColorSamples and one with a
\* string channel.
ConstructColors ==
    ColorSamples \cup { Tuple(<<Float(256), [t |-> "str", v |-> 0], Float(0)>>) }

\* The constructor call: the exception that leaves it, or the new object.
construct(kind, g, color, frame, vh) ==
    IF filter_nan_raises(color)
    THEN [raised |-> "TypeError", obj |-> [kind |-> "none"]]
    ELSE [raised |-> "none",
          obj |-> IF kind = "circle"
                  THEN Circle(g[1], g[2], g[3], color, frame, vh)
                  ELSE Rectangle(g[1], g[2], g[3], g[4], color, frame, vh)]

ConstructInit ==
    /\ circles = << >>
    /\ rectangles = << >>
    /\ video_height \in VideoHeights
    /\ candidate = NoCandidate
    /\ call = NoCall
    /\ pc = "idle"
    /\ NoRun

Construct(kind, g, color, frame) ==
    /\ LET r == construct(kind, g, color, frame, video_height) IN
         /\ raised' = r.raised
         /\ probe' = [op |-> "construct", kind |-> kind, color |-> color,
                      obj |-> r.obj]
    /\ UNCHANGED <<circles, rectangles, video_height, candidate, call, pc,
                   frame_counter, video, saves, fs, ingest, loading>>

ConstructNext ==
    \/ \E g \in CircleGeoms, c \in ConstructColors, f \in Frames :
          Construct("circle", g, c, f)
    \/ \E g \in RectGeoms, c \in ConstructColors, f \in Frames :
          Construct("rectangle", g, c, f)

ConstructSpec == ConstructInit /\ [][ConstructNext]_vars

\* No color, a wrong number of channels, a NaN or a non-numeric channel.
InvalidColorInput(c) ==
    \/ c.none
    \/ Len(c.ch) # 3
    \/ \E k \in DOMAIN c.ch : c.ch[k].t \in {"nan", "str"}

\* C24: constructing an entity with an invalid color (wrong number of
\* channels, a non-numeric channel, a NaN channel, or no color) never raises
\* and stores the color as absent; a stored color that is not absent has
\* exactly 3 non-NaN numeric channels.
C24_InvalidColorStoredAbsent ==
    probe.op = "construct" =>
       /\ raised = "none"
       /\ InvalidColorInput(probe.color) => probe.obj.color = None
       /\ probe.obj.color # None =>
             /\ Len(probe.obj.color.ch) = 3
             /\ \A k \in 1..3 : probe.obj.color.ch[k].t \in {"float", "int"}

(* ------------------ the color predicates (C25, C26) -------------------- *)

\* A color of exactly 3 channels, each a finite real number in 0..255.
ThreeChannelsInRange(c) ==
    /\ ~c.none
    /\ Len(c.ch) = 3
    /\ \A k \in 1..3 : c.ch[k].t \in {"float", "int"} /\ c.ch[k].v \in 0..255

\* C25: is_valid_color(color) is true if and only if color has exactly 3
\* channels and each channel is a finite real number between 0 and 255
\* inclusive; it never raises, also on an absent color.
C25_ValidColorIffThreeInRange ==
    probe.op = "is_valid_color" =>
       /\ raised = "none"
       /\ probe.ret <=> ThreeChannelsInRange(probe.color)

\* C26: are_colors_similar(c1, c2, tolerance) is true if and only if both
\* colors are valid and the absolute difference is at most tolerance in
\* each of the 3 channels, false when both are valid and some channel
\* differs by more, and None when either color is invalid.
C26_ColorsSimilarWithinTolerance ==
    probe.op = "are_colors_similar" =>
       LET c1 == probe.color1
           c2 == probe.color2
           bothValid == is_valid_color(c1) /\ is_valid_color(c2)
           within == \A k \in 1..3 :
                        /\ c1.ch[k].v - c2.ch[k].v <= probe.tolerance
                        /\ c2.ch[k].v - c1.ch[k].v <= probe.tolerance
       IN  /\ probe.forward = "np.True_" <=> (bothValid /\ within)
           /\ probe.forward = "np.False_" <=> (bothValid /\ ~within)
           /\ probe.forward = "None" <=> ~bothValid

\* C26 witness: two valid colors, the second brighter than the first by
\* exactly the tolerance of 30, were found similar.
C26_Witness ==
    /\ probe.op = "are_colors_similar"
    /\ probe.tolerance = 30
    /\ is_valid_color(probe.color1)
    /\ is_valid_color(probe.color2)
    /\ probe.color2.ch[1].v - probe.color1.ch[1].v = 30
    /\ probe.forward = "np.True_"

(* ------------- are_circles_same, are_rectangles_same ------------------- *)
(* The geometric tests are called with thresholds of any value.            *)

\* Circles <<x, y, radius>>: distances 0, 50, just above 50 and the 70.71
\* of the unit test from the first; radius differences 0, 17 and 18.
ProbeCircles ==
    { <<100, 200, 50>>, <<100, 200, 67>>, <<100, 200, 68>>, <<130, 240, 50>>,
      <<130, 241, 50>>, <<150, 250, 50>> }

\* Boxes <<x, y, width, height>>: centre distances 0, 40 and 41, odd sizes
\* whose halves are rounded down, size differences 1, 5 and 6.
ProbeBoxes ==
    { <<0, 0, 100, 100>>, <<40, 0, 101, 101>>, <<40, 0, 100, 100>>,
      <<41, 0, 100, 100>>, <<0, 0, 105, 95>>, <<0, 0, 100, 106>> }

DistanceThresholds == {0 - 1, 0, 40, 50, 70, 71}
SizeThresholds == {0, 5, 17, 50}
ProbeColor == Tuple(<<Float(255), Float(0), Float(0)>>)

GeomInit ==
    /\ circles = << >>
    /\ rectangles = << >>
    /\ video_height \in VideoHeights
    /\ candidate = NoCandidate
    /\ call = NoCall
    /\ pc = "idle"
    /\ NoRun

notProbe == <<circles, rectangles, video_height, candidate, call, pc,
              frame_counter, video, saves, fs, raised, ingest, loading>>

\* a.are_circles_same(b, distance_threshold, radius_threshold), and
\* a.same_circle(b, video_height) for b one frame after a.
CompareCircles(g1, g2, distance_threshold, radius_threshold) ==
    LET a == Circle(g1[1], g1[2], g1[3], ProbeColor, 1, video_height)
        b == Circle(g2[1], g2[2], g2[3], ProbeColor, 2, video_height)
    IN  /\ probe = NoProbe
        /\ probe' = [op |-> "are_circles_same", self |-> a, other |-> b,
                     distance_threshold |-> distance_threshold,
                     size_threshold |-> radius_threshold,
                     ret |-> are_circles_same(a, b, distance_threshold,
                                              radius_threshold),
                     merged |-> same_circle(a, b, video_height).ret]
        /\ UNCHANGED notProbe

\* a.are_rectangles_same(b, distance_threshold, size_diff_threshold)
CompareRectangles(g1, g2, distance_threshold, size_diff_threshold) ==
    LET a == Rectangle(g1[1], g1[2], g1[3], g1[4], ProbeColor, 1, video_height)
        b == Rectangle(g2[1], g2[2], g2[3], g2[4], ProbeColor, 2, video_height)
    IN  /\ probe = NoProbe
        /\ probe' = [op |-> "are_rectangles_same", self |-> a, other |-> b,
                     distance_threshold |-> distance_threshold,
                     size_threshold |-> size_diff_threshold,
                     ret |-> are_rectangles_same(a, b, distance_threshold,
                                                 size_diff_threshold),
                     merged |-> same_rectangle(a, b, video_height).ret]
        /\ UNCHANGED notProbe

GeomNext ==
    \/ \E g1 \in ProbeCircles, g2 \in ProbeCircles,
          dt \in DistanceThresholds, st \in SizeThresholds :
          CompareCircles(g1, g2, dt, st)
    \/ \E g1 \in ProbeBoxes, g2 \in ProbeBoxes,
          dt \in DistanceThresholds, st \in SizeThresholds :
          CompareRectangles(g1, g2, dt, st)

GeomSpec == GeomInit /\ [][GeomNext]_vars

\* The Euclidean distance between points p and q is at most t.
DistanceAtMost(p, q, t) ==
    t >= 0 /\ Sq(p[1] - q[1]) + Sq(p[2] - q[2]) <= Sq(t)

\* C27: are_circles_same matches if and only if the distance between the
\* centres is at most distanceThreshold and the absolute radius difference
\* is at most radiusThreshold; on a match it returns the distance; a match
\* at distance 0 is a match, told apart from the no-match result, so
\* same_circle merges a stationary circle.
C27_CirclesSameIffWithin ==
    probe.op = "are_circles_same" =>
       LET a == probe.self
           b == probe.other
           close == /\ DistanceAtMost(<<a.x, a.y>>, <<b.x, b.y>>,
                                      probe.distance_threshold)
                    /\ a.radius - b.radius <= probe.size_threshold
                    /\ b.radius - a.radius <= probe.size_threshold
       IN  /\ probe.ret.match <=> close
           /\ probe.ret.match =>
                 probe.ret.distance = Sq(a.x - b.x) + Sq(a.y - b.y)
           /\ ~probe.ret.match => probe.ret.distance = NoDistance
           /\ (close /\ a.x = b.x /\ a.y = b.y) =>
                 /\ probe.ret.distance = 0
                 /\ probe.ret # [match |-> FALSE, distance |-> NoDistance]
           /\ (a.x = b.x /\ a.y = b.y /\ a.radius - b.radius \in (0 - 17)..17) =>
                 probe.merged

\* C27 witness: a circle was compared with a circle of the same centre and
\* radius under a distance threshold of 0, and same_circle merged the two.
C27_Witness ==
    /\ probe.op = "are_circles_same"
    /\ probe.self.x = probe.other.x
    /\ probe.self.y = probe.other.y
    /\ probe.self.radius = probe.other.radius
    /\ probe.distance_threshold = 0
    /\ probe.size_threshold = 0
    /\ probe.ret.match
    /\ probe.ret.distance = 0
    /\ probe.merged

\* floor(n / 2) for n >= 0
Half(n) == CHOOSE h \in 0..n : 2 * h <= n /\ n < 2 * h + 2

\* C28: are_rectangles_same matches if and only if the distance between the
\* box centres, each top-left plus floor(width/2) and floor(height/2), is at
\* most distanceThreshold and the larger of the absolute width difference
\* and the absolute height difference is at most sizeDiffThreshold.
C28_RectanglesSameIffWithin ==
    probe.op = "are_rectangles_same" =>
       LET a == probe.self
           b == probe.other
           ca == <<a.x + Half(a.width), a.y + Half(a.height)>>
           cb == <<b.x + Half(b.width), b.y + Half(b.height)>>
           close == /\ DistanceAtMost(ca, cb, probe.distance_threshold)
                    /\ a.width - b.width <= probe.size_threshold
                    /\ b.width - a.width <= probe.size_threshold
                    /\ a.height - b.height <= probe.size_threshold
                    /\ b.height - a.height <= probe.size_threshold
       IN  /\ probe.ret.match <=> close
           /\ probe.ret.match =>
                 probe.ret.distance = Sq(ca[1] - cb[1]) + Sq(ca[2] - cb[2])

\* C28 witness: the rounded-down centres of a box of even and a box of odd
\* size are exactly 40 apart, and the boxes match under the threshold 40.
C28_Witness ==
    /\ probe.op = "are_rectangles_same"
    /\ probe.self.width = 100
    /\ probe.other.width = 101
    /\ probe.other.x - probe.self.x = 40
    /\ probe.distance_threshold = 40
    /\ probe.size_threshold = 5
    /\ probe.ret.match
    /\ probe.ret.distance = Sq(40)

(* --------------------- the order of ingestion (C29) -------------------- *)

\* Frame indices start at 1, and every trajectory entry is of a frame read
\* so far.
FramesNumbered ==
    /\ pc \in {"read", "circles", "rectangles", "key"} => frame_counter >= 1
    /\ \A e \in Entities :
         \A k \in DOMAIN e.data : e.data[k].frame \in 1..frame_counter
    /\ Ingested /\ ingest.outcome = "new" =>
         RegAfter[Len(RegAfter)].data[1].frame = frame_counter

\* A step of track: the index grows by one exactly when the loop goes on to
\* read a frame; a frame is read, then its circles are ingested, then its
\* rectangles, then the loop is tested again.
FrameOrder ==
    /\ frame_counter' \in {frame_counter, frame_counter + 1}
    /\ frame_counter' = frame_counter + 1 <=> (pc = "loop" /\ pc' = "read")
    /\ pc = "read" => pc' \in {"circles", "save_circles"}
    /\ pc = "circles" => pc' \in {"circles", "rectangles"} /\ rectangles' = rectangles
    /\ pc = "rectangles" => pc' \in {"rectangles", "key"} /\ circles' = circles
    /\ pc = "key" => pc' \in {"loop", "save_circles"}
    /\ pc \notin {"circles", "rectangles"} =>
          circles' = circles /\ rectangles' = rectangles

\* C29: track ingests frames in stream order with consecutive indices from
\* 1; for each frame the circle pass completes before the rectangle pass
\* starts, and both complete before the next frame is read.
C29_FramesInOrder == []FramesNumbered /\ [][FrameOrder]_vars

\* C29 witness: the second frame has been ingested after the first: a
\* circle has entries of frames 1 and 2 and a rectangle is registered.
C29_Witness ==
    /\ pc = "key"
    /\ frame_counter = 2
    /\ \E i \in DOMAIN circles :
         /\ Len(circles[i].data) = 2
         /\ circles[i].data[1].frame = 1
         /\ circles[i].data[2].frame = 2
    /\ rectangles # << >>

(* ----------------- one observation per frame (C30) --------------------- *)

\* The entities of registry reg that hold an entry of frame f.
HoldersOf(reg, f) ==
    {i \in DOMAIN reg : \E k \in DOMAIN reg[i].data : reg[i].data[k].frame = f}

\* C30: within one frame an entity absorbs at most one observation: once it
\* was created from or has merged an observation of frame f it rejects
\* every further candidate of frame f, so each candidate scanned in a frame
\* ends up in one more entity of its kind.
C30_OneObservationPerFrame ==
    /\ \A e \in Entities :
         \A j, k \in DOMAIN e.data : j < k => e.data[j].frame < e.data[k].frame
    /\ Scanned =>
         /\ \A i \in HoldersOf(RegBefore, frame_counter) :
               i \notin Acceptors /\ RegAfter[i] = RegBefore[i]
         /\ Cardinality(HoldersOf(RegAfter, frame_counter))
              = Cardinality(HoldersOf(RegBefore, frame_counter)) + 1

\* C30 witness: a rectangle was detected twice in one frame, the second
\* time after an entity had taken the first, and is now in two entities.
C30_Witness ==
    /\ Scanned
    /\ ingest.kind = "rectangle"
    /\ ingest.outcome = "new"
    /\ Len(rectangles) >= 2
    /\ ingest.before.rectangles[1].x = ingest.geom[1]
    /\ ingest.before.rectangles[1].y = ingest.geom[2]
    /\ ingest.before.rectangles[1].width = ingest.geom[3]
    /\ ingest.before.rectangles[1].frame = frame_counter
    /\ Cardinality(HoldersOf(rectangles, frame_counter)) >= 2

(* ------------- every scanned observation is kept once (C31) ------------ *)

\* The sum of the trajectory lengths over registry reg.
RECURSIVE TrajectoryTotal(_)
TrajectoryTotal(reg) ==
    IF reg = << >> THEN 0
    ELSE Len(reg[1].data) + TrajectoryTotal(Tail(reg))

\* The step is the handling of one detected shape of the kind that reaches
\* the merge scan.
ScansOne(kind) ==
    /\ video'.detections = video.detections + 1
    /\ ingest'.kind = kind
    /\ ingest'.outcome \in {"merged", "new"}

\* A step that scans an observation adds one entry to the trajectories of
\* its kind, in one entity; every other step adds none.
ScanAddsOneEntry ==
    /\ TrajectoryTotal(circles')
         = TrajectoryTotal(circles) + (IF ScansOne("circle") THEN 1 ELSE 0)
    /\ TrajectoryTotal(rectangles')
         = TrajectoryTotal(rectangles) + (IF ScansOne("rectangle") THEN 1 ELSE 0)
    /\ Cardinality(ChangedCircles) + Cardinality(ChangedRectangles)
         + (Len(circles') - Len(circles)) + (Len(rectangles') - Len(rectangles))
         = IF ScansOne("circle") \/ ScansOne("rectangle") THEN 1 ELSE 0

\* C31: every observation that reaches the merge scan ends up in exactly
\* one entity's trajectory, appended to the entity that accepted it or as
\* the seeding entry of a new entity: a run starts with empty registries
\* and the sum of the trajectory lengths of a kind grows by one with each
\* scanned observation of the kind and with nothing else.
C31_ScannedObservationKeptOnce ==
    /\ [](pc = "track" =>
            TrajectoryTotal(circles) = 0 /\ TrajectoryTotal(rectangles) = 0)
    /\ [](TrajectoryTotal(circles) + TrajectoryTotal(rectangles)
            <= video.detections)
    /\ [][ScanAddsOneEntry]_vars

\* C31 witness: three shapes were scanned in two frames, one of them
\* merged into an entity that a second one of its kind also accepts.
C31_Witness ==
    /\ Scanned
    /\ ingest.kind = "rectangle"
    /\ ingest.outcome = "merged"
    /\ Cardinality(Acceptors) >= 2
    /\ video.detections = 3
    /\ TrajectoryTotal(rectangles) = 3

(* ------------------ a video that does not end (C32) -------------------- *)
(* Tracker.track on a source whose read can return a frame for ever.  One  *)
(* circle and one square are detected in the first frame; the frames that  *)
(* follow show nothing.                                                    *)

\* ret, frame = video.read() returns a frame, whatever the frame index.
EndlessRead ==
    /\ pc = "read"
    /\ pc' = "circles"
    /\ UNCHANGED <<circles, rectangles, video_height, candidate, call,
                   frame_counter, video, saves, fs, raised, ingest, probe,
                   loading>>

FirstFrameCircle ==
    /\ frame_counter = 1
    /\ circles = << >>
    /\ \E c \in TrackColors : DetectCircle(<<100, 200, 50>>, c)

FirstFrameRectangle ==
    /\ frame_counter = 1
    /\ rectangles = << >>
    /\ \E c \in TrackColors : DetectRectangle(<<10, 20, 100, 100>>, c)

LongNext ==
    \/ StartTrack
    \/ LoadVideo
    \/ LoopTest
    \/ EndlessRead
    \/ ReadFrame
    \/ FirstFrameCircle
    \/ EndCircles
    \/ FirstFrameRectangle
    \/ EndRectangles
    \/ WaitKey
    \/ SaveCircle
    \/ SaveCirclesDone
    \/ SaveRectangle
    \/ SaveRectanglesDone

\* The program is one thread that always takes its next step.
LongSpec == TrackInit /\ [][LongNext]_vars /\ WF_vars(LongNext)

\* track has returned or an exception has left it.
TrackEnded == pc \in {"done", "raised"}

\* C32: the ingestion loop of track always terminates: it processes at most
\* 1000 frames even when the video source never signals the end of the
\* stream, and it then proceeds to persistence.
C32_TrackTerminates ==
    /\ [](frame_counter <= 1000)
    /\ [](video.stop = "limit" =>
            /\ frame_counter = 1000
            /\ pc \in {"save_circles", "save_rectangles", "done"}
            /\ raised = "none")
    /\ <>TrackEnded
    /\ [](video.state = "open" =>
            <>(pc = "done" /\ SavesAre(Len(circles), Len(rectangles))))

\* C32 witness: frames were returned until the loop stopped at its limit of
\* 1000, and the circle and the rectangle of the first frame were saved.
C32_Witness ==
    /\ pc = "done"
    /\ video.stop = "limit"
    /\ frame_counter = 1000
    /\ Len(circles) = 1
    /\ Len(rectangles) = 1
    /\ SavesAre(1, 1)

(* --------------- the start of a run of track (C33) --------------------- *)
(* track is started on a data directory of any content, up to the attempt  *)
(* to open the video.                                                      *)

OpenInit ==
    /\ circles = << >>
    /\ rectangles = << >>
    /\ video_height = 0
    /\ candidate = NoCandidate
    /\ call = NoCall
    /\ pc = "track"
    /\ frame_counter = 0
    /\ video = NoVideo
    /\ saves = << >>
    /\ fs \in DirSamples
    /\ raised = "none"
    /\ ingest = NoIngest
    /\ probe = NoProbe
    /\ loading = NoLoad

OpenNext == StartTrack \/ LoadVideo

OpenSpec == OpenInit /\ [][OpenNext]_vars

\* The record files in directory dir.
RecordFiles(dir) == {e \in dir.entries : IsRecordFile(e)}

\* The video is opened only after delete_dir has returned, and nothing is
\* written before.
DeleteBeforeOpen ==
    /\ video.state # "none" => pc \in {"loop", "raised"}
    /\ pc = "track" => video.state = "none"
    /\ saves = << >>

\* The first step of track removes the record files that can be removed
\* and nothing else; the attempt to open the video leaves the directory as
\* it is.
DeleteStep ==
    /\ pc = "track" =>
          /\ video' = video
          /\ fs'.entries =
               {e \in fs.entries : ~(IsRecordFile(e) /\ ~e.locked)}
    /\ pc = "load_video" => fs' = fs

====
